---- MODULE Spec2Model ----
(***************************************************************************)
(* Model of the CloudWalk assistant's conversation pipeline:               *)
(*   src/src/language_manager.py  (LanguageManager.detect_language)        *)
(*   src/src/chatbot_engine.py    (CloudWalkChatbot, ConversationContext)  *)
(*   src/src/knowledge_base.py    (CloudWalkKnowledgeBase.search)          *)
(*                                                                         *)
(* A text is a sequence of atoms.  An atom is a whitespace character, a    *)
(* punctuation character, or a fragment of letters.  A maximal run of      *)
(* letter fragments is one regex word (\w+), so the word "fees" written as *)
(* <<"fee","s">> is a different word from "fee", as \b requires.           *)
(***************************************************************************)
EXTENDS Integers, Sequences, FiniteSets, TLC

\* ------------------------------------------------------------------------
\* Bounds of the model
\* ------------------------------------------------------------------------
MaxLen == 3
MaxPairLen == 3
MaxCustom == 2
MaxResults == 3
MaxMessages == 4
MaxHistory == 4
LongHistory == 10

\* ------------------------------------------------------------------------
\* Text primitives
\* ------------------------------------------------------------------------
WHITESPACE == {" ", "\n"}

PUNCTUATION == {"?", ",", "!"}

IsLetter(a) == a \notin (WHITESPACE \cup PUNCTUATION)

\* str.lower(), atom by atom
lower_atom(a) ==
    CASE a = "Hello" -> "hello"
      [] a = "Qual"  -> "qual"
      [] a = "Pix"   -> "pix"
      [] a = "JIM"   -> "jim"
      [] a = "Taxa"  -> "taxa"
      [] a = "X"     -> "x"
      [] a = "Overview" -> "overview"
      [] a = "Fee"   -> "fee"
      [] a = "Feature" -> "feature"
      [] a = "InfinitePay" -> "infinitepay"
      [] OTHER       -> a

lower(text) == [i \in 1..Len(text) |-> lower_atom(text[i])]

\* str.split(): the maximal runs of non-whitespace atoms
RECURSIVE split_from(_, _, _)
split_from(text, i, cur) ==
    IF i > Len(text)
    THEN (IF cur = <<>> THEN <<>> ELSE <<cur>>)
    ELSE IF text[i] \in WHITESPACE
         THEN (IF cur = <<>> THEN <<>> ELSE <<cur>>) \o split_from(text, i + 1, <<>>)
         ELSE split_from(text, i + 1, Append(cur, text[i]))

split(text) == split_from(text, 1, <<>>)

\* str.strip(): drop leading and trailing whitespace atoms
RECURSIVE lstrip(_)
lstrip(text) ==
    IF text # <<>> /\ Head(text) \in WHITESPACE THEN lstrip(Tail(text)) ELSE text

RECURSIVE rstrip(_)
rstrip(text) ==
    IF text # <<>> /\ text[Len(text)] \in WHITESPACE
    THEN rstrip(SubSeq(text, 1, Len(text) - 1))
    ELSE text

\* (variant: the content is used as returned, untrimmed)
strip_nothing(text) == text

strip(text) == rstrip(lstrip(text))

\* The regex words of a text: each maximal run of letter fragments, with the
\* non-letter atoms that separate it from the previous word.
RECURSIVE regex_words_from(_, _, _, _)
regex_words_from(text, i, cur, sep) ==
    IF i > Len(text)
    THEN (IF cur = <<>> THEN <<>> ELSE <<[w |-> cur, sep |-> sep]>>)
    ELSE IF IsLetter(text[i])
         THEN regex_words_from(text, i + 1, Append(cur, text[i]), sep)
         ELSE IF cur = <<>>
              THEN regex_words_from(text, i + 1, <<>>, Append(sep, text[i]))
              ELSE <<[w |-> cur, sep |-> sep]>>
                   \o regex_words_from(text, i + 1, <<>>, <<text[i]>>)

regex_words(text) == regex_words_from(text, 1, <<>>, <<>>)

\* An alternative of a \b(...|...)\b pattern is a sequence of words joined by
\* single spaces; it matches at word i when the words are exactly those.
alt_matches_at(ws, i, alt) ==
    /\ i + Len(alt) - 1 <= Len(ws)
    /\ \A k \in 1..Len(alt) :
          /\ ws[i + k - 1].w = <<alt[k]>>
          /\ (k > 1 => ws[i + k - 1].sep = <<" ">>)

\* index of the first alternative of the pattern that matches at word i, or 0
first_alt(pattern, ws, i) ==
    LET ms == {j \in 1..Len(pattern) : alt_matches_at(ws, i, pattern[j])}
    IN  IF ms = {} THEN 0 ELSE CHOOSE j \in ms : \A k \in ms : j <= k

\* len(re.findall(pattern, text)): leftmost, non-overlapping matches
RECURSIVE findall_count(_, _, _)
findall_count(pattern, ws, i) ==
    IF i > Len(ws)
    THEN 0
    ELSE LET j == first_alt(pattern, ws, i)
         IN  IF j = 0
             THEN findall_count(pattern, ws, i + 1)
             ELSE 1 + findall_count(pattern, ws, i + Len(pattern[j]))

\* re.search(pattern, text) is not None
re_search(pattern, ws) == \E i \in 1..Len(ws) : first_alt(pattern, ws, i) # 0

RECURSIVE SumSeq(_)
SumSeq(s) == IF s = <<>> THEN 0 ELSE Head(s) + SumSeq(Tail(s))

\* ------------------------------------------------------------------------
\* language_manager.py
\* ------------------------------------------------------------------------
LANGUAGES == <<"pt-BR", "en">>

LANGUAGE_PATTERNS ==
    [l \in {"pt-BR", "en"} |->
        IF l = "pt-BR"
        THEN [patterns |->
                << << <<"olá">>, <<"oi">>, <<"bom", "dia">>, <<"boa", "tarde">>,
                      <<"boa", "noite">>, <<"obrigado">>, <<"obrigada">>,
                      <<"por", "favor">>, <<"tchau">>, <<"até">>, <<"você">>,
                      <<"vocês">>, <<"está">>, <<"estou">>, <<"são">>, <<"sou">>,
                      <<"meu">>, <<"minha">>, <<"nosso">>, <<"nossa">> >>,
                   << <<"maquininha">>, <<"cartão">>, <<"pagamento">>, <<"taxa">>,
                      <<"pix">>, <<"boleto">>, <<"conta">>, <<"dinheiro">>,
                      <<"receber">>, <<"vender">>, <<"comprar">> >>,
                   << <<"fazer">>, <<"querer">>, <<"poder">>, <<"precisar">>,
                      <<"ter">>, <<"ser">>, <<"estar">> >>,
                   << <<"não">>, <<"sim">>, <<"talvez">>, <<"claro">>,
                      <<"certo">>, <<"errado">> >> >>,
              stop_words |-> {"de", "da", "do", "a", "o", "um", "uma", "para",
                              "com", "em", "no", "na"}]
        ELSE [patterns |->
                << << <<"hello">>, <<"hi">>, <<"good", "morning">>,
                      <<"good", "afternoon">>, <<"good", "evening">>, <<"thanks">>,
                      <<"thank", "you">>, <<"please">>, <<"bye">>, <<"goodbye">>,
                      <<"you">>, <<"your">>, <<"are">>, <<"am">>, <<"is">>,
                      <<"my">>, <<"our">> >>,
                   << <<"card">>, <<"payment">>, <<"fee">>, <<"rate">>,
                      <<"account">>, <<"money">>, <<"receive">>, <<"sell">>,
                      <<"buy">>, <<"terminal">> >>,
                   << <<"do">>, <<"want">>, <<"can">>, <<"need">>, <<"have">>,
                      <<"be">> >>,
                   << <<"no">>, <<"yes">>, <<"maybe">>, <<"sure">>, <<"right">>,
                      <<"wrong">> >> >>,
              stop_words |-> {"the", "a", "an", "to", "for", "with", "in", "on",
                              "at"}]]

\* LanguageManager.default_language of the module singleton
default_language == "en"

\* (variant: pattern matches and stop words weigh the same)
score_of_unweighted(config, ws, words) ==
    LET matches == SumSeq([p \in 1..Len(config.patterns) |->
                              findall_count(config.patterns[p], ws, 1)])
        stop_word_matches ==
            Cardinality({i \in 1..Len(words) :
                            \E sw \in config.stop_words : words[i] = <<sw>>})
    IN  matches + stop_word_matches

\* score of one language before normalization: 2 per pattern match plus 1
\* per stop word
score_of(config, ws, words) ==
    LET matches == SumSeq([p \in 1..Len(config.patterns) |->
                              findall_count(config.patterns[p], ws, 1)])
        stop_word_matches ==
            Cardinality({i \in 1..Len(words) :
                            \E sw \in config.stop_words : words[i] = <<sw>>})
    IN  matches * 2 + stop_word_matches

\* (the words of the text are computed once and bound, then scored)
raw_score(lang, text_lower) ==
    CHOOSE score \in { score_of(LANGUAGE_PATTERNS[lang], ws, words) :
                          ws \in {regex_words(text_lower)},
                          words \in {split(text_lower)} } : TRUE

\* scores[lang]: the normalized score as a fraction num/den
scores(text) ==
    LET text_lower == lower(text)
        n == Len(split(text_lower))
    IN  [lang \in {"pt-BR", "en"} |->
            IF n > 0 THEN [num |-> raw_score(lang, text_lower), den |-> n]
                     ELSE [num |-> 0, den |-> 1]]

\* a/b > c/d for positive denominators
FracGT(a, b) == a.num * b.den > b.num * a.den

\* (variant: on a tie the language declared last comes first)
sorted_scores_unstable(text) ==
    LET sc == scores(text)
    IN  IF FracGT(sc[LANGUAGES[1]], sc[LANGUAGES[2]])
        THEN <<LANGUAGES[1], LANGUAGES[2]>>
        ELSE <<LANGUAGES[2], LANGUAGES[1]>>

\* sorted(scores.items(), key=score, reverse=True): stable, so on a tie the
\* language declared first stays first
sorted_scores(text) ==
    LET sc == scores(text)
    IN  IF FracGT(sc[LANGUAGES[2]], sc[LANGUAGES[1]])
        THEN <<LANGUAGES[2], LANGUAGES[1]>>
        ELSE <<LANGUAGES[1], LANGUAGES[2]>>

\* min(score / 0.5, 1.0) as a fraction
confidence_of(score) ==
    IF 2 * score.num >= score.den
    THEN [num |-> 1, den |-> 1]
    ELSE [num |-> 2 * score.num, den |-> score.den]

None == "None"

\* (variant: any second language with a positive score is reported)
is_close_any(alt_score, top_score) == alt_score.num > 0

\* The scores are floats.  When the second score is exactly 7/10 of the top
\* one, (alt/n) / (top/n) > 0.7 is decided by rounding: these are the
\* <<alt, top, n>> of that kind, up to 12 tokens and a top of 30, for which
\* the double-precision quotient exceeds the double 0.7.
FLOAT_QUOTIENT_ABOVE_0_7 == {<<7, 10, 3>>, <<7, 10, 6>>, <<7, 10, 11>>, <<7, 10, 12>>, <<14, 20, 3>>, <<14, 20, 6>>, <<14, 20, 11>>, <<14, 20, 12>>, <<21, 30, 5>>, <<21, 30, 7>>, <<21, 30, 9>>, <<21, 30, 10>>, <<21, 30, 11>>}

\* sorted_scores[1][1] > 0 and alt_score / top_score > 0.7
is_close(alt_score, top_score) ==
    /\ alt_score.num > 0
    /\ \/ 10 * alt_score.num * top_score.den > 7 * top_score.num * alt_score.den
       \/ /\ 10 * alt_score.num * top_score.den = 7 * top_score.num * alt_score.den
          /\ <<alt_score.num, top_score.num, top_score.den>>
                 \in FLOAT_QUOTIENT_ABOVE_0_7

\* (variant: the top-ranked language is returned even when its score is 0)
detect_language_unchecked(text) ==
    LET sc        == scores(text)
        ranked    == sorted_scores(text)
    IN  [detected_language |-> ranked[1],
         confidence |-> confidence_of(sc[ranked[1]]),
         alternative_language |-> None,
         alternative_confidence |-> <<>>]

\* An Optional[float] is <<>> for None and <<fraction>> otherwise.
detect_language(text) ==
    LET sc        == scores(text)
        ranked    == sorted_scores(text)
        top_lang  == ranked[1]
        top_score == sc[top_lang]
        alt_lang  == ranked[2]
        alt_score == sc[alt_lang]
    IN  IF top_score.num = 0
        THEN [detected_language |-> default_language,
              confidence |-> [num |-> 0, den |-> 1],
              alternative_language |-> None,
              alternative_confidence |-> <<>>]
        ELSE IF is_close(alt_score, top_score)
             THEN [detected_language |-> top_lang,
                   confidence |-> confidence_of(top_score),
                   alternative_language |-> alt_lang,
                   alternative_confidence |-> <<confidence_of(alt_score)>>]
             ELSE [detected_language |-> top_lang,
                   confidence |-> confidence_of(top_score),
                   alternative_language |-> None,
                   alternative_confidence |-> <<>>]

\* ------------------------------------------------------------------------
\* chatbot_engine.py: intent detection
\* ------------------------------------------------------------------------
ConversationIntent ==
    <<"greeting", "product_inquiry", "pricing_question", "technical_support",
      "company_info", "feature_explanation", "comparison", "how_to_start",
      "contact_sales", "general_chat">>

\* _initialize_intent_patterns: (intent, patterns) in dict insertion order
intent_patterns ==
    << [intent |-> "greeting",
        patterns |-> << << <<"hi">>, <<"hello">>, <<"hey">>, <<"ola">>, <<"olá">>,
                           <<"oi">>, <<"hola">> >> >>],
       [intent |-> "product_inquiry",
        patterns |-> << << <<"infinitepay">>, <<"jim">>, <<"stratus">>,
                           <<"product">>, <<"produto">> >> >>],
       [intent |-> "pricing_question",
        patterns |-> << << <<"price">>, <<"fee">>, <<"rate">>, <<"taxa">>,
                           <<"preço">>, <<"custo">>, <<"quanto", "custa">> >> >>] >>

intent_matches(entry, input_lower) ==
    \E ws \in {regex_words(input_lower)} :
        \E p \in 1..Len(entry.patterns) : re_search(entry.patterns[p], ws)

RECURSIVE detect_intent_from(_, _)
detect_intent_from(input_lower, k) ==
    IF k > Len(intent_patterns)
    THEN <<>>
    ELSE (IF intent_matches(intent_patterns[k], input_lower)
          THEN <<intent_patterns[k].intent>>
          ELSE <<>>) \o detect_intent_from(input_lower, k + 1)

\* (variant: the patterns are tested against the input as typed)
detect_intent_as_typed(user_input) ==
    LET detected_intents == detect_intent_from(user_input, 1)
    IN  IF detected_intents = <<>> THEN <<"general_chat">> ELSE detected_intents

detect_intent(user_input) ==
    LET detected_intents == detect_intent_from(lower(user_input), 1)
    IN  IF detected_intents = <<>> THEN <<"general_chat">> ELSE detected_intents

\* ------------------------------------------------------------------------
\* knowledge_base.py: the collection and its filtered search
\* ------------------------------------------------------------------------
\* _generate_id: hashlib.md5(content.encode()).hexdigest()[:16], a fixed
\* function of the hashed text (no two texts of the model collide)
generate_id(content) == [md5_16 |-> content]

\* A stored document: id, content and the metadata _add_documents keeps.
\* Titles and subcategories are texts, the other fields plain strings.
\* A sample of the core documents of _initialize_core_knowledge:
CORE_DOCUMENTS ==
    { [id |-> generate_id(<<"infinitepay_overview">>),
       content |-> <<"InfinitePay is a powerful financial platform">>,
       metadata |-> [title |-> <<"InfinitePay", " ", "Overview">>,
                     category |-> "products",
                     subcategory |-> <<"infinitepay">>, language |-> "en",
                     product |-> "infinitepay"]],
      [id |-> generate_id(<<"cloudwalk_mission">>),
       content |-> <<"Our mission is to create the best payment network on Earth">>,
       metadata |-> [title |-> <<"CloudWalk", " ", "Mission">>,
                     category |-> "company",
                     subcategory |-> <<"mission">>, language |-> "en",
                     product |-> ""]],
      [id |-> generate_id(<<"infinitepay_taxas_pt">>),
       content |-> <<"InfinitePay oferece as menores taxas do Brasil">>,
       metadata |-> [title |-> <<"Taxas", " ", "InfinitePay">>,
                     category |-> "products",
                     subcategory |-> <<"fee", "s">>, language |-> "pt-BR",
                     product |-> "infinitepay"]] }

\* collection.add: the engine keeps one record per id; a record whose id is
\* already stored is left as it is and the add does not raise
collection_add_appending(collection, documents) == collection \cup documents

collection_add(collection, documents) ==
    collection \cup {doc \in documents : \A d \in collection : d.id # doc.id}

\* add_custom_knowledge: the id is the hash of f"{title}_{content}"
custom_id(title, content) == generate_id(title \o <<"_">> \o content)

\* the record _add_documents stores for a custom document (no subcategory,
\* no product)
custom_document(title, content, category, language) ==
    [id |-> custom_id(title, content),
     content |-> content,
     metadata |-> [title |-> title, category |-> category,
                   subcategory |-> <<>>, language |-> language,
                   product |-> ""]]

\* the where clause built by search: a filter that is None or empty places
\* no constraint
build_where(filter_language, filter_product, filter_category) ==
    [language |-> IF filter_language \notin {None, ""} THEN filter_language ELSE None,
     product  |-> IF filter_product \notin {None, ""} THEN filter_product ELSE None,
     category |-> IF filter_category \notin {None, ""} THEN filter_category ELSE None]

where_matches(where, doc) ==
    /\ where.language # None => doc.metadata.language = where.language
    /\ where.product # None => doc.metadata.product = where.product
    /\ where.category # None => doc.metadata.category = where.category

\* collection.query: the engine returns the n_results nearest matching
\* documents (all of them when fewer match), in an order of its own
collection_query(collection, n_results, where) ==
    LET matching == {d \in collection : where_matches(where, d)}
        k == IF Cardinality(matching) < n_results THEN Cardinality(matching)
                                                  ELSE n_results
    IN  {r \in [1..k -> matching] : \A i, j \in 1..k : r[i] = r[j] => i = j}

\* what collection.query hands back for the hits: one column per field
query_results(hits) ==
    [ids       |-> [i \in 1..Len(hits) |-> hits[i].id],
     documents |-> [i \in 1..Len(hits) |-> hits[i].content],
     metadatas |-> [i \in 1..Len(hits) |-> hits[i].metadata]]

\* search, lines 294-305: one entry per returned id, in the engine's order
format_results_reversed(results) ==
    [i \in 1..Len(results.ids) |->
        [id       |-> results.ids[Len(results.ids) + 1 - i],
         content  |-> results.documents[Len(results.ids) + 1 - i],
         metadata |-> results.metadatas[Len(results.ids) + 1 - i]]]

format_results(results) ==
    [i \in 1..Len(results.ids) |->
        [id       |-> results.ids[i],
         content  |-> results.documents[i],
         metadata |-> results.metadatas[i]]]

\* CloudWalkKnowledgeBase.search: the possible result lists
search(collection, query, n_results, filter_language, filter_product, filter_category) ==
    {format_results(query_results(hits)) :
        hits \in collection_query(collection, n_results,
                     build_where(filter_language, filter_product, filter_category))}

\* 'needle' in text, for the needles the code looks for
contains(text, needle) == \E i \in 1..Len(text) : text[i] = needle

PRODUCT_N_RESULTS == 10

\* get_product_info, lines 347-354: the bucket a hit goes to; the pricing
\* test reads the subcategory only
\* (variant: the pricing test comes first)
bucket_of_pricing_first(metadata) ==
    IF contains(metadata.subcategory, "fee")
           \/ contains(metadata.subcategory, "pricing")
           \/ contains(metadata.subcategory, "taxa") THEN "pricing"
    ELSE IF contains(metadata.subcategory, "overview")
           \/ contains(lower(metadata.title), "overview") THEN "overview"
    ELSE IF contains(metadata.subcategory, "feature")
           \/ contains(lower(metadata.title), "feature") THEN "features"
    ELSE "other"

bucket_of(metadata) ==
    IF contains(metadata.subcategory, "overview")
           \/ contains(lower(metadata.title), "overview") THEN "overview"
    ELSE IF contains(metadata.subcategory, "feature")
           \/ contains(lower(metadata.title), "feature") THEN "features"
    ELSE IF contains(metadata.subcategory, "fee")
           \/ contains(metadata.subcategory, "pricing")
           \/ contains(metadata.subcategory, "taxa") THEN "pricing"
    ELSE "other"

empty_info == [overview |-> <<>>, features |-> <<>>, pricing |-> <<>>, other |-> <<>>]

\* the for loop of get_product_info over results[i..]
RECURSIVE organize(_, _, _)
organize(results, i, info) ==
    IF i > Len(results) THEN info
    ELSE LET result == results[i]
             bucket == bucket_of(result.metadata)
         IN  organize(results, i + 1,
                 IF bucket = "other"
                 THEN [info EXCEPT !.other = Append(@, result.content)]
                 ELSE [info EXCEPT ![bucket] = result.content])

\* get_product_info: the searches it may be answered with
product_search(collection, product, language) ==
    search(collection, <<product>>, PRODUCT_N_RESULTS, language, lower_atom(product), None)

\* ------------------------------------------------------------------------
\* chatbot_engine.py: the response orchestrator
\* ------------------------------------------------------------------------
CONFIG_MESSAGE == <<"The chatbot is not configured correctly. Missing API key.">>

APOLOGY == <<"I apologize, but I encountered an error. Please try again.">>

\* thresholds and sizes of generate_response / search_knowledge
CONFIDENCE_NUM == 6
CONFIDENCE_DEN == 10
HISTORY_WINDOW == 4
N_RESULTS == 3

\* (variant: a confidence of exactly 0.6 also overwrites)
is_confident_inclusive(lang_result) ==
    lang_result.confidence.num * CONFIDENCE_DEN
        >= CONFIDENCE_NUM * lang_result.confidence.den

\* lang_result.confidence > 0.6
is_confident(lang_result) ==
    lang_result.confidence.num * CONFIDENCE_DEN
        > CONFIDENCE_NUM * lang_result.confidence.den

\* step 1: the language of the context after detection
update_language(language, lang_result) ==
    IF is_confident(lang_result) THEN lang_result.detected_language ELSE language

\* search_knowledge: the arguments of the knowledge_base.search call
search_knowledge_args(query, ctx) ==
    [query |-> query,
     n_results |-> N_RESULTS,
     filter_language |-> IF ctx.language # "en" THEN ctx.language ELSE None,
     filter_product |-> ctx.current_product]

RECURSIVE join(_, _)
join(sep, parts) ==
    IF parts = <<>> THEN <<>>
    ELSE IF Len(parts) = 1 THEN parts[1]
    ELSE parts[1] \o <<sep>> \o join(sep, Tail(parts))

knowledge_context(knowledge_results) ==
    join("\n", [i \in 1..Len(knowledge_results) |-> knowledge_results[i].content])

build_system_prompt(ctx) ==
    <<"You are CloudWalk's AI assistant. Speak in ", ctx.language>>

retrieval_block(knowledge_results) ==
    <<"Use this information to answer the user's question:", "\n">>
        \o knowledge_context(knowledge_results)

\* (variant: conversation_history[:4])
history_window_oldest(history) ==
    SubSeq(history, 1, IF Len(history) < HISTORY_WINDOW THEN Len(history)
                                                        ELSE HISTORY_WINDOW)

\* conversation_history[-4:]
history_window(history) ==
    LET n == Len(history)
        start == IF n - HISTORY_WINDOW < 0 THEN 0 ELSE n - HISTORY_WINDOW
    IN  SubSeq(history, start + 1, n)

history_message(msg) ==
    IF msg.role = "user" THEN [type |-> "human", content |-> msg.content]
                         ELSE [type |-> "ai", content |-> msg.content]

\* step 3: the list of messages for the chat model
build_messages(user_input, ctx, knowledge_results) ==
    << [type |-> "system", content |-> build_system_prompt(ctx)],
       [type |-> "system", content |-> retrieval_block(knowledge_results)] >>
    \o [i \in 1..Len(history_window(ctx.conversation_history)) |->
           history_message(history_window(ctx.conversation_history)[i])]
    \o << [type |-> "human", content |-> user_input] >>

\* (variant: the user entry is appended before the call, outside the try)
history_after_invoke_user_first(history, user_input, reply) ==
    IF reply # <<>>
    THEN history \o << [role |-> "user", content |-> user_input],
                       [role |-> "assistant", content |-> strip(reply[1])] >>
    ELSE Append(history, [role |-> "user", content |-> user_input])

\* (variant: the stored history is cut to the prompt window on append)
history_after_invoke_truncating(history, user_input, reply) ==
    IF reply # <<>>
    THEN history_window(history)
            \o << [role |-> "user", content |-> user_input],
                  [role |-> "assistant", content |-> strip(reply[1])] >>
    ELSE history

\* steps 4-5 and the except branch: reply is <<content>> when llm.invoke
\* returned and <<>> when it raised
history_after_invoke(history, user_input, reply) ==
    IF reply # <<>>
    THEN history \o << [role |-> "user", content |-> user_input],
                       [role |-> "assistant", content |-> strip(reply[1])] >>
    ELSE history

response_after_invoke(reply) ==
    IF reply # <<>> THEN strip(reply[1]) ELSE APOLOGY

\* ------------------------------------------------------------------------
\* Inputs of the turns
\* ------------------------------------------------------------------------
\* "Hello, what are your fees?"
TEXT_HELLO_FEES ==
    <<"Hello", ",", " ", "what", " ", "are", " ", "your", " ", "fee", "s", "?">>

\* "Qual a taxa do Pix?"
TEXT_QUAL_TAXA == <<"Qual", " ", "a", " ", "taxa", " ", "do", " ", "Pix", "?">>

\* ten tokens, three Portuguese stop words: pt-BR with confidence 0.6 exactly
TEXT_LOW_PT ==
    <<"o", " ", "pedido", " ", "de", " ", "um", " ", "amigo", " ", "chegou", " ",
      "bem", " ", "rapido", " ", "ontem", " ", "cedo">>

\* whitespace only
TEXT_BLANK == <<" ", "\n">>

Inputs == {TEXT_HELLO_FEES, TEXT_QUAL_TAXA, TEXT_LOW_PT, TEXT_BLANK}

LongInputs == {TEXT_HELLO_FEES, TEXT_QUAL_TAXA}

\* raw contents the chat model may return
Replies == { <<"\n", "Sure", "!", " ", "Ask", " ", "me", ".", " ", "\n">>,
             <<"Claro", "!">> }

LongReplies == { <<" ", "Sure", "!", "\n">> }

\* language_manager.detect_language(user_input) of line 156, tabulated over
\* the inputs of the turns
lang_result_of == [t \in Inputs \cup LongInputs |-> detect_language(t)]

\* ------------------------------------------------------------------------
\* State
\* ------------------------------------------------------------------------
VARIABLES
    llm,                      \* CloudWalkChatbot.llm: None or the chat model
    config_default_language,  \* config.default_language (DEFAULT_LANGUAGE)
    context,                  \* the session's ConversationContext
    clock,                    \* what datetime.now() last returned
    call,                     \* record of the latest generate_response call
    probe,                    \* a direct call of a pure method: input, output
    collection,               \* the documents of the knowledge collection
    kb_call,                  \* record of the latest knowledge base call
    procs,                    \* the concurrent inserts: position and locals of each
    session_messages,         \* st.session_state.messages of the chat page
    ui                        \* how the last script run of the chat page ended

vars == <<llm, config_default_language, context, clock, call, probe,
          collection, kb_call, procs, session_messages, ui>>

\* ConversationContext(session_id=..., current_product=...)
new_context(current_product) ==
    [session_id |-> "session-1",
     language |-> "en",
     user_profile |-> "general",
     current_product |-> current_product,
     conversation_history |-> <<>>,
     detected_intents |-> <<>>,
     metadata |-> <<>>,
     created_at |-> 0,
     last_interaction |-> 0]

no_call(ctx) ==
    [kind |-> "none", user_input |-> <<>>, pre |-> ctx, detections |-> <<>>,
     searches |-> <<>>, search_raised |-> FALSE, search_results |-> <<>>,
     llm_invocations |-> <<>>,
     llm_reply |-> <<>>, returned |-> <<>>]

no_probe == [op |-> "none", text |-> <<>>, out |-> <<>>]

no_kb_call == [op |-> "none"]

no_procs == <<>>

\* the chat page at rest: no script run pending, no generate_response call
\* made for a prompt
idle_ui == [status |-> "idle", calls |-> 0]

Init ==
    /\ probe = no_probe
    /\ collection = CORE_DOCUMENTS
    /\ kb_call = no_kb_call
    /\ llm \in {None, "ChatGroq"}
    /\ config_default_language \in {"en", "pt-BR"}
    /\ \E current_product \in {None, "infinitepay"} :
          context = new_context(current_product)
    /\ clock = 0
    /\ call = no_call(context)
    /\ procs = no_procs
    /\ session_messages = <<>>
    /\ ui = idle_ui

\* ------------------------------------------------------------------------
\* generate_response, one action per path through it
\* ------------------------------------------------------------------------
\* (variant: the configuration check comes after language detection)
GenerateUnconfigured_after_detection(user_input) ==
    /\ llm = None
    /\ context' = [context EXCEPT
                      !.language = update_language(@, lang_result_of[user_input])]
    /\ call' = [no_call(context) EXCEPT !.kind = "unconfigured",
                                        !.user_input = user_input,
                                        !.detections = <<lang_result_of[user_input]>>,
                                        !.returned = <<CONFIG_MESSAGE>>]
    /\ UNCHANGED <<llm, config_default_language, clock, probe, collection, kb_call>>

\* line 152-153: no chat model was constructed
GenerateUnconfigured(user_input) ==
    /\ llm = None
    /\ call' = [no_call(context) EXCEPT !.kind = "unconfigured",
                                        !.user_input = user_input,
                                        !.returned = <<CONFIG_MESSAGE>>]
    /\ UNCHANGED <<llm, config_default_language, context, clock, probe, collection, kb_call>>

\* (variant: the search is issued before the language is updated)
GenerateSearchRaises_search_first(user_input) ==
    /\ llm # None
    /\ LET lang_result == lang_result_of[user_input]
           ctx1 == [context EXCEPT !.language = update_language(@, lang_result)]
       IN  /\ context' = ctx1
           /\ call' = [no_call(context) EXCEPT
                          !.kind = "search_raised",
                          !.user_input = user_input,
                          !.detections = <<lang_result>>,
                          !.searches = <<search_knowledge_args(user_input, context)>>,
                          !.search_raised = TRUE]
    /\ UNCHANGED <<llm, config_default_language, clock, probe, collection, kb_call>>

\* lines 156-161: knowledge_base.search raises; nothing catches it
GenerateSearchRaises(user_input) ==
    /\ llm # None
    /\ LET lang_result == lang_result_of[user_input]
           ctx1 == [context EXCEPT !.language = update_language(@, lang_result)]
       IN  /\ context' = ctx1
           /\ call' = [no_call(context) EXCEPT
                          !.kind = "search_raised",
                          !.user_input = user_input,
                          !.detections = <<lang_result>>,
                          !.searches = <<search_knowledge_args(user_input, ctx1)>>,
                          !.search_raised = TRUE]
    /\ UNCHANGED <<llm, config_default_language, clock, probe, collection, kb_call>>

\* (variant: a failed llm.invoke is tried a second time before giving up)
GenerateWithReply_retrying(user_input, knowledge_results, reply) ==
    /\ llm # None
    /\ LET lang_result == lang_result_of[user_input]
           ctx1 == [context EXCEPT !.language = update_language(@, lang_result)]
           messages == build_messages(user_input, ctx1, knowledge_results)
           now == clock + 1
       IN  /\ context' =
                 [ctx1 EXCEPT
                    !.conversation_history =
                        history_after_invoke(@, user_input, reply),
                    !.last_interaction = IF reply # <<>> THEN now ELSE @]
           /\ clock' = IF reply # <<>> THEN now ELSE clock
           /\ call' = [no_call(context) EXCEPT
                          !.kind = IF reply # <<>> THEN "ok" ELSE "llm_raised",
                          !.user_input = user_input,
                          !.detections = <<lang_result>>,
                          !.searches = <<search_knowledge_args(user_input, ctx1)>>,
                          !.search_results = <<knowledge_results>>,
                          !.llm_invocations = IF reply # <<>> THEN <<messages>>
                                              ELSE <<messages, messages>>,
                          !.llm_reply = reply,
                          !.returned = <<response_after_invoke(reply)>>]
    /\ UNCHANGED <<llm, config_default_language, probe, collection, kb_call>>

\* lines 156-192 with a search that returns; reply is <<content>> when
\* llm.invoke returned and <<>> when it raised
\* (variant: the turn also records the intents of the input)
GenerateWithReply_recording_intents(user_input, knowledge_results, reply) ==
    /\ llm # None
    /\ LET lang_result == lang_result_of[user_input]
           ctx1 == [context EXCEPT !.language = update_language(@, lang_result)]
           messages == build_messages(user_input, ctx1, knowledge_results)
           now == clock + 1
       IN  /\ context' =
                 [ctx1 EXCEPT
                    !.conversation_history =
                        history_after_invoke(@, user_input, reply),
                    !.detected_intents = detect_intent(user_input),
                    !.last_interaction = IF reply # <<>> THEN now ELSE @]
           /\ clock' = IF reply # <<>> THEN now ELSE clock
           /\ call' = [no_call(context) EXCEPT
                          !.kind = IF reply # <<>> THEN "ok" ELSE "llm_raised",
                          !.user_input = user_input,
                          !.detections = <<lang_result>>,
                          !.searches = <<search_knowledge_args(user_input, ctx1)>>,
                          !.search_results = <<knowledge_results>>,
                          !.llm_invocations = <<messages>>,
                          !.llm_reply = reply,
                          !.returned = <<response_after_invoke(reply)>>]
    /\ UNCHANGED <<llm, config_default_language, probe, collection, kb_call>>

GenerateWithReply(user_input, knowledge_results, reply) ==
    /\ llm # None
    /\ LET lang_result == lang_result_of[user_input]
           ctx1 == [context EXCEPT !.language = update_language(@, lang_result)]
           messages == build_messages(user_input, ctx1, knowledge_results)
           now == clock + 1
       IN  /\ context' =
                 [ctx1 EXCEPT
                    !.conversation_history =
                        history_after_invoke(@, user_input, reply),
                    !.last_interaction = IF reply # <<>> THEN now ELSE @]
           /\ clock' = IF reply # <<>> THEN now ELSE clock
           /\ call' = [no_call(context) EXCEPT
                          !.kind = IF reply # <<>> THEN "ok" ELSE "llm_raised",
                          !.user_input = user_input,
                          !.detections = <<lang_result>>,
                          !.searches = <<search_knowledge_args(user_input, ctx1)>>,
                          !.search_results = <<knowledge_results>>,
                          !.llm_invocations = <<messages>>,
                          !.llm_reply = reply,
                          !.returned = <<response_after_invoke(reply)>>]
    /\ UNCHANGED <<llm, config_default_language, probe, collection, kb_call>>

\* the result lists the search of this turn may return
search_knowledge(query, ctx) ==
    LET args == search_knowledge_args(query, ctx)
    IN  search(collection, args.query, args.n_results,
               args.filter_language, args.filter_product, None)

ctx_after_detection(ctx, user_input) ==
    [ctx EXCEPT !.language = update_language(@, lang_result_of[user_input])]

GenerateLLMRaises(user_input) ==
    \E docs \in search_knowledge(user_input, ctx_after_detection(context, user_input)) :
        GenerateWithReply(user_input, docs, <<>>)

GenerateOK(user_input, replies, max_history) ==
    /\ Len(context.conversation_history) + 2 <= max_history
    /\ \E docs \in search_knowledge(user_input, ctx_after_detection(context, user_input)) :
          \E content \in replies :
              GenerateWithReply(user_input, docs, <<content>>)

Turn(inputs, replies, max_history) ==
    \E user_input \in inputs :
        \/ GenerateUnconfigured(user_input)
        \/ GenerateSearchRaises(user_input)
        \/ GenerateLLMRaises(user_input)
        \/ GenerateOK(user_input, replies, max_history)

Next ==
    /\ UNCHANGED <<procs, session_messages, ui>>
    /\ Turn(Inputs, Replies, MaxHistory)

Spec == Init /\ [][Next]_vars

NextLong ==
    /\ UNCHANGED <<procs, session_messages, ui>>
    /\ Turn(LongInputs, LongReplies, LongHistory)

SpecLong == Init /\ [][NextLong]_vars

\* ------------------------------------------------------------------------
\* Direct calls of detect_intent on bounded texts
\* ------------------------------------------------------------------------
IntentAtoms == {"Hello", "oi", "fee", "s", "JIM", "quanto", "custa", " ", "?", "ok"}

TextsOver(atoms, n) == UNION {[1..k -> atoms] : k \in 0..n}

InitIntent ==
    /\ llm = "ChatGroq"
    /\ config_default_language = "en"
    /\ context = new_context(None)
    /\ clock = 0
    /\ call = no_call(context)
    /\ collection = CORE_DOCUMENTS
    /\ kb_call = no_kb_call
    /\ \E t \in TextsOver(IntentAtoms, MaxLen) \cup Inputs :
          probe = [op |-> "input", text |-> t, out |-> <<>>]
    /\ procs = no_procs
    /\ session_messages = <<>>
    /\ ui = idle_ui

DetectIntent ==
    /\ probe.op = "input"
    /\ probe' = [probe EXCEPT !.op = "detect_intent", !.out = detect_intent(probe.text)]
    /\ UNCHANGED <<llm, config_default_language, context, clock, call, collection, kb_call>>

NextIntent ==
    /\ UNCHANGED <<procs, session_messages, ui>>
    /\ DetectIntent

SpecIntent == InitIntent /\ [][NextIntent]_vars

\* ------------------------------------------------------------------------
\* Direct calls of detect_language on bounded texts
\* ------------------------------------------------------------------------
DetectAtoms == {"Pix", "taxa", "fee", "a", "do", "the", "ok", " ", "?"}

\* "do a a": en 4, pt-BR 3
TEXT_RATIO_75 == <<"do", " ", "a", " ", "a">>

\* "do do do a a a a": en 10, pt-BR 7, seven tokens
TEXT_RATIO_70_OF_7 ==
    <<"do", " ", "do", " ", "do", " ", "a", " ", "a", " ", "a", " ", "a">>

\* the same with four more tokens: en 10, pt-BR 7, eleven tokens
TEXT_RATIO_70_OF_11 ==
    TEXT_RATIO_70_OF_7 \o <<" ", "ok", " ", "ok", " ", "ok", " ", "ok">>

DetectTexts ==
    TextsOver(DetectAtoms, MaxLen) \cup Inputs
        \cup {TEXT_RATIO_75, TEXT_RATIO_70_OF_7, TEXT_RATIO_70_OF_11}

InitDetect ==
    /\ llm = "ChatGroq"
    /\ config_default_language = "en"
    /\ context = new_context(None)
    /\ clock = 0
    /\ call = no_call(context)
    /\ collection = CORE_DOCUMENTS
    /\ kb_call = no_kb_call
    /\ \E t \in DetectTexts : probe = [op |-> "input", text |-> t, out |-> <<>>]
    /\ procs = no_procs
    /\ session_messages = <<>>
    /\ ui = idle_ui

\* out holds the LanguageDetectionResult and the scores it was made from
DetectLanguage ==
    /\ probe.op = "input"
    /\ probe' = [probe EXCEPT !.op = "detect_language",
                              !.out = <<detect_language(probe.text),
                                        scores(probe.text)>>]
    /\ UNCHANGED <<llm, config_default_language, context, clock, call,
                   collection, kb_call>>

NextDetect ==
    /\ UNCHANGED <<procs, session_messages, ui>>
    /\ DetectLanguage

SpecDetect == InitDetect /\ [][NextDetect]_vars

\* ------------------------------------------------------------------------
\* The knowledge store on its own: construction over a persisted collection
\* and add_custom_knowledge
\* ------------------------------------------------------------------------
MISSION_CONTENT == <<"Our mission is to create the best payment network on Earth">>

\* (title, content) pairs handed to add_custom_knowledge: the title and
\* content of a core document, "a_b" with "c", "a" with "b_c", "a" with "c"
CustomPairs ==
    { <<<<"CloudWalk", " ", "Mission">>, MISSION_CONTENT>>,
      <<<<"a", "_", "b">>, <<"c">>>>,
      <<<<"a">>, <<"b", "_", "c">>>>,
      <<<<"a">>, <<"c">>>> }

CustomCategories == {"company", "faq"}

CustomLanguages == {"en", "pt-BR"}

InitStore ==
    /\ llm = "ChatGroq"
    /\ config_default_language = "en"
    /\ context = new_context(None)
    /\ clock = 0
    /\ call = no_call(context)
    /\ probe = no_probe
    /\ collection = {}
    /\ kb_call = no_kb_call
    /\ procs = no_procs
    /\ session_messages = <<>>
    /\ ui = idle_ui

\* _initialize_core_knowledge, run by every construction over the persisted
\* collection; collection.get() may raise, and then nothing counts as present
InitializeCoreKnowledge(get_raises) ==
    LET existing_ids == IF get_raises THEN {} ELSE {d.id : d \in collection}
        new_documents == {doc \in CORE_DOCUMENTS : doc.id \notin existing_ids}
    IN  /\ collection' = IF new_documents # {}
                         THEN collection_add(collection, new_documents)
                         ELSE collection
        /\ kb_call' = [op |-> "initialize_core_knowledge",
                       get_raised |-> get_raises,
                       new_documents |-> new_documents]
        /\ UNCHANGED <<llm, config_default_language, context, clock, call, probe>>

AddCustomKnowledge(title, content, category, language) ==
    LET document == custom_document(title, content, category, language)
    IN  /\ kb_call.op # "none"
        /\ \/ Cardinality(collection) < Cardinality(CORE_DOCUMENTS) + MaxCustom
           \/ \E d \in collection : d.id = document.id
        /\ collection' = collection_add(collection, {document})
        /\ kb_call' = [op |-> "add_custom_knowledge",
                       title |-> title, content |-> content,
                       category |-> category, language |-> language,
                       ret |-> document.id]
        /\ UNCHANGED <<llm, config_default_language, context, clock, call, probe>>

NextStore ==
    /\ UNCHANGED <<procs, session_messages, ui>>
    /\ \/ \E get_raises \in BOOLEAN : InitializeCoreKnowledge(get_raises)
       \/ \E pair \in CustomPairs, category \in CustomCategories,
             language \in CustomLanguages :
             AddCustomKnowledge(pair[1], pair[2], category, language)

SpecStore == InitStore /\ [][NextStore]_vars

\* ------------------------------------------------------------------------
\* get_product_info over a collection of product documents
\* ------------------------------------------------------------------------
product_document(label, title, subcategory, language) ==
    [id |-> generate_id(<<label>>),
     content |-> <<label>>,
     metadata |-> [title |-> title, category |-> "products",
                   subcategory |-> subcategory, language |-> language,
                   product |-> "x"]]

DOC_OVERVIEW == product_document("x_overview", <<"X", " ", "Overview">>, <<"x">>, "en")

DOC_FEES == product_document("x_fees", <<"X", " ", "Fee", "s">>, <<"fee", "s">>, "en")

DOC_FEES_AS_COSTS == product_document("x_costs", <<"X", " ", "Fee", "s">>, <<"costs">>, "en")

DOC_FEATURES ==
    product_document("x_features", <<"X", " ", "Feature", "s">>, <<"feature", "s">>, "en")

DOC_PRICING_OVERVIEW ==
    product_document("x_pricing", <<"Pricing", " ", "Overview">>, <<"pricing">>, "en")

DOC_TERMINAL == product_document("x_terminal", <<"X", " ", "Terminal">>, <<"hardware">>, "en")

DOC_TAXAS == product_document("x_taxas", <<"Taxa", "s", " ", "X">>, <<"taxa", "s">>, "pt-BR")

ProductDocs ==
    {DOC_OVERVIEW, DOC_FEES, DOC_FEES_AS_COSTS, DOC_FEATURES,
     DOC_PRICING_OVERVIEW, DOC_TERMINAL, DOC_TAXAS}

InitProduct ==
    /\ llm = "ChatGroq"
    /\ config_default_language = "en"
    /\ context = new_context(None)
    /\ clock = 0
    /\ call = no_call(context)
    /\ probe = no_probe
    /\ collection \in SUBSET ProductDocs
    /\ kb_call = no_kb_call
    /\ procs = no_procs
    /\ session_messages = <<>>
    /\ ui = idle_ui

GetProductInfo(product, language) ==
    /\ kb_call.op = "none"
    /\ \E results \in product_search(collection, product, language) :
          kb_call' = [op |-> "get_product_info",
                      product |-> product, language |-> language,
                      results |-> results,
                      info |-> organize(results, 1, empty_info)]
    /\ UNCHANGED <<llm, config_default_language, context, clock, call, probe, collection>>

NextProduct ==
    /\ UNCHANGED <<procs, session_messages, ui>>
    /\ \E product \in {"X", "x"}, language \in {"en", "pt-BR"} :
           GetProductInfo(product, language)

SpecProduct == InitProduct /\ [][NextProduct]_vars

\* ------------------------------------------------------------------------
\* search with every combination of filters
\* ------------------------------------------------------------------------
FilterLanguages == {None, "", "en", "pt-BR"}

FilterProducts == {None, "", "infinitepay"}

FilterCategories == {None, "products", "company"}

InitSearch ==
    /\ llm = "ChatGroq"
    /\ config_default_language = "en"
    /\ context = new_context(None)
    /\ clock = 0
    /\ call = no_call(context)
    /\ probe = no_probe
    /\ collection = CORE_DOCUMENTS
    /\ kb_call = no_kb_call
    /\ procs = no_procs
    /\ session_messages = <<>>
    /\ ui = idle_ui

\* search: the where clause and n_results it hands to collection.query, the
\* hits of the engine, and the list it returns
Search(query, n_results, filter_language, filter_product, filter_category) ==
    LET where == build_where(filter_language, filter_product, filter_category)
    IN  \E hits \in collection_query(collection, n_results, where) :
          /\ kb_call' = [op |-> "search",
                         args |-> [query |-> query, n_results |-> n_results,
                                   filter_language |-> filter_language,
                                   filter_product |-> filter_product,
                                   filter_category |-> filter_category],
                         query_texts |-> <<query>>,
                         n_results |-> n_results,
                         where |-> where,
                         raised |-> FALSE,
                         hits |-> hits,
                         ret |-> format_results(query_results(hits))]
          /\ UNCHANGED <<llm, config_default_language, context, clock, call, probe, collection>>

\* collection.query raises: search has no handler, nothing is returned
SearchRaises(query, n_results, filter_language, filter_product, filter_category) ==
    /\ kb_call' = [op |-> "search",
                   args |-> [query |-> query, n_results |-> n_results,
                             filter_language |-> filter_language,
                             filter_product |-> filter_product,
                             filter_category |-> filter_category],
                   query_texts |-> <<query>>,
                   n_results |-> n_results,
                   where |-> build_where(filter_language, filter_product, filter_category),
                   raised |-> TRUE,
                   hits |-> <<>>,
                   ret |-> <<>>]
    /\ UNCHANGED <<llm, config_default_language, context, clock, call, probe, collection>>

NextSearch ==
    /\ UNCHANGED <<procs, session_messages, ui>>
    /\ \E query \in {TEXT_HELLO_FEES, TEXT_QUAL_TAXA}, n_results \in 1..MaxResults,
          filter_language \in FilterLanguages, filter_product \in FilterProducts,
          filter_category \in FilterCategories :
           \/ Search(query, n_results, filter_language, filter_product, filter_category)
           \/ SearchRaises(query, n_results, filter_language, filter_product, filter_category)

SpecSearch == InitSearch /\ [][NextSearch]_vars

\* ------------------------------------------------------------------------
\* Two inserts of the same document at once.  Nothing in knowledge_base.py
\* takes a lock: a core load is collection.get() and later collection.add(),
\* add_custom_knowledge is one collection.add(); the engine applies an add one
\* record at a time.
\* ------------------------------------------------------------------------
Procs == {1, 2}

\* the core documents in the order of the core_documents list
CORE_DOCUMENT_LIST ==
    << CHOOSE d \in CORE_DOCUMENTS : d.id = generate_id(<<"cloudwalk_mission">>),
       CHOOSE d \in CORE_DOCUMENTS : d.id = generate_id(<<"infinitepay_overview">>),
       CHOOSE d \in CORE_DOCUMENTS : d.id = generate_id(<<"infinitepay_taxas_pt">>) >>

RECURSIVE select_new(_, _)
\* [doc for doc in core_documents if doc.id not in existing_ids]
select_new(documents, existing_ids) ==
    IF documents = <<>> THEN <<>>
    ELSE IF Head(documents).id \in existing_ids
         THEN select_new(Tail(documents), existing_ids)
         ELSE <<Head(documents)>> \o select_new(Tail(documents), existing_ids)

core_load_start == [op |-> "initialize_core_knowledge", pc |-> "get",
                    pending |-> <<>>, failed |-> FALSE, ret |-> <<>>]

add_custom_start(document) ==
    [op |-> "add_custom_knowledge", pc |-> "add",
     pending |-> <<document>>, failed |-> FALSE, ret |-> <<>>]

InitConcurrent ==
    /\ llm = "ChatGroq"
    /\ config_default_language = "en"
    /\ context = new_context(None)
    /\ clock = 0
    /\ call = no_call(context)
    /\ probe = no_probe
    /\ session_messages = <<>>
    /\ ui = idle_ui
    /\ \/ /\ collection \in {{}, {CORE_DOCUMENT_LIST[2]}, CORE_DOCUMENTS}
          /\ procs = [p \in Procs |-> core_load_start]
       \/ /\ collection = CORE_DOCUMENTS
          /\ \E pair \in CustomPairs :
                \E categories \in [Procs -> CustomCategories],
                   languages \in [Procs -> CustomLanguages] :
                    procs = [p \in Procs |->
                                add_custom_start(custom_document(pair[1], pair[2],
                                                     categories[p], languages[p]))]
    /\ kb_call = [op |-> "concurrent", start |-> collection]

\* lines 219-230 of process p: read the stored ids, keep the new documents
CoreLoadGet(p, get_raises) ==
    /\ procs[p].op = "initialize_core_knowledge"
    /\ procs[p].pc = "get"
    /\ LET existing_ids == IF get_raises THEN {} ELSE {d.id : d \in collection}
           new_documents == select_new(CORE_DOCUMENT_LIST, existing_ids)
       IN  procs' = [procs EXCEPT ![p].pending = new_documents,
                                  ![p].pc = IF new_documents = <<>> THEN "done" ELSE "add"]
    /\ UNCHANGED <<llm, config_default_language, context, clock, call, probe,
                   collection, kb_call, session_messages, ui>>

\* (variant: the engine refuses a record whose id is stored, and the insert
\* of process p fails)
EngineAdd_raising(p) ==
    /\ procs[p].pc = "add"
    /\ LET doc == Head(procs[p].pending)
           rest == Tail(procs[p].pending)
           stored == \E d \in collection : d.id = doc.id
       IN  /\ collection' = collection_add(collection, {doc})
           /\ procs' = [procs EXCEPT
                           ![p].pending = rest,
                           ![p].failed = stored,
                           ![p].pc = IF stored THEN "failed"
                                     ELSE IF rest = <<>> THEN "done" ELSE "add",
                           ![p].ret = IF ~stored /\ rest = <<>>
                                         /\ procs[p].op = "add_custom_knowledge"
                                      THEN <<doc.id>> ELSE <<>>]
    /\ UNCHANGED <<llm, config_default_language, context, clock, call, probe,
                   kb_call, session_messages, ui>>

\* collection.add of process p, one record of the batch at a time; after the
\* last one add_custom_knowledge returns the id
EngineAdd(p) ==
    /\ procs[p].pc = "add"
    /\ LET doc == Head(procs[p].pending)
           rest == Tail(procs[p].pending)
       IN  /\ collection' = collection_add(collection, {doc})
           /\ procs' = [procs EXCEPT
                           ![p].pending = rest,
                           ![p].pc = IF rest = <<>> THEN "done" ELSE "add",
                           ![p].ret = IF rest = <<>> /\ procs[p].op = "add_custom_knowledge"
                                      THEN <<doc.id>> ELSE <<>>]
    /\ UNCHANGED <<llm, config_default_language, context, clock, call, probe,
                   kb_call, session_messages, ui>>

NextConcurrent ==
    \E p \in Procs :
        \/ \E get_raises \in BOOLEAN : CoreLoadGet(p, get_raises)
        \/ EngineAdd(p)

SpecConcurrent == InitConcurrent /\ [][NextConcurrent]_vars

\* ------------------------------------------------------------------------
\* streamlit_app.py: the turn loop of the chat page, one action per script run
\* ------------------------------------------------------------------------
PURPLE_HEART == "(purple heart)"

ROCKET == "(rocket)"

\* format_response_with_brand: the sign-off is added unless the response has
\* one of the two emoji
format_response_with_brand(response) ==
    IF ~contains(response, PURPLE_HEART) /\ ~contains(response, ROCKET)
    THEN response \o <<"\n", "\n", PURPLE_HEART, " CloudWalk - Payments made simple!">>
    ELSE response

UIReplies == LongReplies \cup { <<"To", " ", "the", " ", "moon", " ", ROCKET>> }

\* init_chatbot_state and the first script run: empty message list
InitUI ==
    /\ Init
    /\ config_default_language = "en"
    /\ context.current_product = None

last_is_user ==
    session_messages # <<>> /\ session_messages[Len(session_messages)].role = "user"

\* a run in which st.chat_input returns a prompt (lines 209-214): the prompt
\* is appended and the script is rerun.  A prompt can be typed when the page
\* is at rest or shows the exception of the last run.
SubmitPrompt(prompt) ==
    /\ ui.status \in {"idle", "error"}
    /\ Len(session_messages) < MaxMessages
    /\ session_messages' = Append(session_messages, [role |-> "user", content |-> prompt])
    /\ ui' = [status |-> "rerun", calls |-> 0]
    /\ UNCHANGED <<llm, config_default_language, context, clock, call, probe,
                   collection, kb_call, procs>>

\* a run that finds a user message last (lines 217-230) and whose
\* generate_response call returns: the branded response is appended and the
\* rerun that follows finds an assistant message last
RespondRun ==
    /\ ui.status \in {"rerun", "error"}
    /\ last_is_user
    /\ LET user_prompt == session_messages[Len(session_messages)].content
       IN  \/ GenerateUnconfigured(user_prompt)
           \/ GenerateLLMRaises(user_prompt)
           \/ GenerateOK(user_prompt, UIReplies, MaxHistory)
    /\ session_messages' =
          Append(session_messages,
                 [role |-> "assistant",
                  content |-> format_response_with_brand(call'.returned[1])])
    /\ ui' = [status |-> "idle", calls |-> ui.calls + 1]
    /\ UNCHANGED procs

\* the same run when the knowledge search raises inside generate_response:
\* the exception ends the script run, nothing is appended, and the next run
\* (any interaction with the page) finds the user message last again
RespondRunRaises ==
    /\ ui.status \in {"rerun", "error"}
    /\ ui.calls < 2
    /\ last_is_user
    /\ GenerateSearchRaises(session_messages[Len(session_messages)].content)
    /\ ui' = [status |-> "error", calls |-> ui.calls + 1]
    /\ UNCHANGED <<session_messages, procs>>

NextUI ==
    \/ \E prompt \in LongInputs : SubmitPrompt(prompt)
    \/ RespondRun
    \/ RespondRunRaises

SpecUI == InitUI /\ [][NextUI]_vars

\* ------------------------------------------------------------------------
\* Properties
\* ------------------------------------------------------------------------
IsPrefix(s, t) == Len(s) <= Len(t) /\ SubSeq(t, 1, Len(s)) = s

LLMRaised == call.llm_invocations # <<>> /\ call.llm_reply = <<>>

LLMReturned == call.llm_invocations # <<>> /\ call.llm_reply # <<>>

\* C1: when the LLM call raises, the context returned equals the context
\* passed in, in every field, language included.
C1_ContextUnchangedOnLLMFailure == LLMRaised => context = call.pre

\* C2: when the LLM call raises, the response is the fixed apology string and
\* conversation_history is what it was before the call.
C2_ApologyAndHistoryKept ==
    LLMRaised =>
        /\ call.returned = <<APOLOGY>>
        /\ Len(context.conversation_history) = Len(call.pre.conversation_history)
        /\ context.conversation_history = call.pre.conversation_history

C2_Witness ==
    /\ LLMRaised
    /\ Len(context.conversation_history) = 2
    /\ call.user_input = TEXT_QUAL_TAXA

\* C3: a failure of the knowledge search does not abort the turn:
\* generate_response still returns a response and the prompt it built has an
\* empty retrieval block.
C3_SearchFailureNonFatal ==
    call.search_raised =>
        /\ call.returned # <<>>
        /\ call.llm_invocations # <<>>
        /\ call.llm_invocations[1][2].content = retrieval_block(<<>>)

\* C4: without a chat model every call returns the configuration message,
\* runs no detection, no search and no LLM call, and leaves the context as
\* it was.
C4_UnconfiguredRefuses ==
    (llm = None /\ call.kind # "none") =>
        /\ call.returned = <<CONFIG_MESSAGE>>
        /\ call.detections = <<>>
        /\ call.searches = <<>>
        /\ call.llm_invocations = <<>>
        /\ context = call.pre
        /\ context.language = "en"
        /\ context.conversation_history = <<>>

C4_Witness ==
    /\ llm = None
    /\ call.kind = "unconfigured"
    /\ call.user_input = TEXT_QUAL_TAXA
    /\ call.returned = <<CONFIG_MESSAGE>>

\* C5: over every call, whatever its outcome, conversation_history keeps an
\* even length, alternates user, assistant starting with user, and the
\* history before the call is a prefix of the history after it.
C5_HistoryStep ==
    LET h == context'.conversation_history
    IN  /\ IsPrefix(context.conversation_history, h)
        /\ Len(h) % 2 = 0
        /\ \A i \in 1..Len(h) :
              h[i].role = IF i % 2 = 1 THEN "user" ELSE "assistant"

C5_HistoryGrowsByPairs == [][C5_HistoryStep]_vars

C5_Witness ==
    /\ Len(context.conversation_history) = 8
    /\ LLMRaised
    /\ context.conversation_history[1].content # context.conversation_history[3].content

\* t is raw without its leading and trailing whitespace
IsTrimOf(t, raw) ==
    /\ t # <<>> => (t[1] \notin WHITESPACE /\ t[Len(t)] \notin WHITESPACE)
    /\ \E i \in 0..Len(raw) :
          /\ i + Len(t) <= Len(raw)
          /\ SubSeq(raw, i + 1, i + Len(t)) = t
          /\ \A k \in (1..i) \cup ((i + Len(t) + 1)..Len(raw)) : raw[k] \in WHITESPACE

\* C6: a call whose LLM call succeeds appends exactly two entries, the user
\* entry with user_input and then the assistant entry with the trimmed reply,
\* refreshes last_interaction and returns the trimmed reply.
C6_SuccessAppendsPair ==
    LLMReturned =>
        LET before == call.pre.conversation_history
            after  == context.conversation_history
            n      == Len(before)
        IN  /\ Len(after) = n + 2
            /\ SubSeq(after, 1, n) = before
            /\ after[n + 1] = [role |-> "user", content |-> call.user_input]
            /\ after[n + 2].role = "assistant"
            /\ IsTrimOf(after[n + 2].content, call.llm_reply[1])
            /\ call.returned = <<after[n + 2].content>>
            /\ context.last_interaction = clock
            /\ context.last_interaction > call.pre.last_interaction

C6_Witness ==
    /\ LLMReturned
    /\ call.llm_reply[1][1] \in WHITESPACE
    /\ Len(context.conversation_history) = 4

\* C7: the messages passed to the LLM are the persona instruction, the
\* retrieval block, the last min(4, n) history entries in stored order with
\* their roles, then the new user input.
C7_PromptAssembly ==
    call.llm_invocations # <<>> =>
        LET sent == call.llm_invocations[1]
            h    == call.pre.conversation_history
            n    == Len(h)
            m    == IF n < 4 THEN n ELSE 4
        IN  /\ Len(sent) = 2 + m + 1
            /\ sent[1].type = "system"
            /\ sent[1].content = build_system_prompt(context)
            /\ sent[2].type = "system"
            /\ sent[2].content = retrieval_block(call.search_results[1])
            /\ \A i \in 1..m :
                  /\ sent[2 + i].content = h[n - m + i].content
                  /\ sent[2 + i].type =
                        (IF h[n - m + i].role = "user" THEN "human" ELSE "ai")
            /\ sent[Len(sent)] = [type |-> "human", content |-> call.user_input]

C7_Witness ==
    /\ call.llm_invocations # <<>>
    /\ Len(call.pre.conversation_history) = 10
    /\ Len(call.llm_invocations[1]) = 7
    /\ call.pre.conversation_history[1].content # call.pre.conversation_history[7].content

\* C8: in every turn of a configured orchestrator the language after the
\* turn is the detected one when the confidence is above 0.6 and the
\* language before the turn otherwise.
C8_LanguageStep ==
    (llm # None /\ call' # call) =>
        /\ call'.detections = <<lang_result_of[call'.user_input]>>
        /\ LET r == call'.detections[1]
           IN  context'.language =
                  IF 10 * r.confidence.num > 6 * r.confidence.den
                  THEN r.detected_language
                  ELSE context.language

C8_StickyLanguage == [][C8_LanguageStep]_vars

C8_Witness ==
    /\ call.user_input = TEXT_LOW_PT
    /\ call.detections # <<>>
    /\ call.detections[1].detected_language = "pt-BR"
    /\ call.pre.language = "en"
    /\ context.language = "en"
    /\ Len(context.conversation_history) = 2

\* C9: the knowledge search is issued with the user input, 3 results, the
\* product of the context, and a language filter that is None exactly when
\* the language of the context is the configured default language.
C9_SearchArguments ==
    call.searches # <<>> =>
        LET a == call.searches[1]
        IN  /\ a.query = call.user_input
            /\ a.n_results = 3
            /\ a.filter_product = context.current_product
            /\ a.filter_language =
                  (IF context.language = config_default_language
                   THEN None ELSE context.language)

\* C10: detect_intent returns a non-empty list without duplicates, in the
\* declaration order of the intents; it is [general_chat] exactly when no
\* pattern matches the lower-cased input, and general_chat has no companion.
IntentIndex(intent) == CHOOSE k \in 1..Len(ConversationIntent) : ConversationIntent[k] = intent

C10_IntentList ==
    probe.op = "detect_intent" =>
        LET out == probe.out
            nomatch == \A k \in 1..Len(intent_patterns) :
                           ~intent_matches(intent_patterns[k], lower(probe.text))
        IN  /\ out # <<>>
            /\ \A i \in 1..Len(out) : \E k \in 1..Len(ConversationIntent) :
                  ConversationIntent[k] = out[i]
            /\ \A i, j \in 1..Len(out) :
                  i < j => IntentIndex(out[i]) < IntentIndex(out[j])
            /\ (out = <<"general_chat">>) <=> nomatch
            /\ (\E i \in 1..Len(out) : out[i] = "general_chat") => Len(out) = 1

C10_Witness ==
    /\ probe.op = "detect_intent"
    /\ probe.text = <<"Hello", " ", "fee">>
    /\ probe.out = <<"greeting", "pricing_question">>

\* C11: for "Hello, what are your fees?" language detection returns en and
\* the intents returned contain pricing_question.
C11_HelloFeesScenario ==
    (probe.op = "detect_intent" /\ probe.text = TEXT_HELLO_FEES) =>
        /\ lang_result_of[TEXT_HELLO_FEES].detected_language = "en"
        /\ \E i \in 1..Len(probe.out) : probe.out[i] = "pricing_question"

\* C12: a turn that overwrites the language with a non-default language L
\* issues its search with filter_language = L, and so does every later turn
\* that does not overwrite it.
C12_FilterStep ==
    (llm # None /\ call' # call) =>
        LET r == call'.detections[1]
            a == call'.searches[1]
            overwrites == 10 * r.confidence.num > 6 * r.confidence.den
        IN  /\ (overwrites /\ r.detected_language # default_language) =>
                  /\ context'.language = r.detected_language
                  /\ a.filter_language = r.detected_language
            /\ (~overwrites /\ call.searches # <<>>
                    /\ call.searches[1].filter_language # None) =>
                  a.filter_language = call.searches[1].filter_language

C12_FilterFollowsLanguage == [][C12_FilterStep]_vars

C12_Witness ==
    /\ call.kind = "ok"
    /\ call.user_input = TEXT_BLANK
    /\ call.pre.language = "pt-BR"
    /\ call.searches[1].filter_language = "pt-BR"
    /\ Len(context.conversation_history) = 4

\* what a text offers to a language: regex matches, stop words, tokens
pattern_matches(lang, text) ==
    LET ws == regex_words(lower(text))
        ps == LANGUAGE_PATTERNS[lang].patterns
    IN  SumSeq([p \in 1..Len(ps) |-> findall_count(ps[p], ws, 1)])

stop_word_hits(lang, text) ==
    LET words == split(lower(text))
    IN  Cardinality({i \in 1..Len(words) :
                        \E sw \in LANGUAGE_PATTERNS[lang].stop_words : words[i] = <<sw>>})

token_count(text) == Len(split(text))

NoSignal(text) ==
    \A lang \in {"pt-BR", "en"} :
        pattern_matches(lang, text) = 0 /\ stop_word_hits(lang, text) = 0

\* C13: an input with no pattern match and no stop word in any language
\* yields the default language, confidence 0.0 and no alternative.
C13_ZeroSignalDefault ==
    (probe.op = "detect_language" /\ NoSignal(probe.text)) =>
        /\ probe.out[1].detected_language = default_language
        /\ probe.out[1].confidence.num = 0
        /\ probe.out[1].alternative_language = None
        /\ probe.out[1].alternative_confidence = <<>>

C13_Witness ==
    /\ probe.op = "detect_language"
    /\ probe.text = TEXT_BLANK
    /\ probe.out[1].confidence.num = 0

InUnitInterval(f) == f.den > 0 /\ 0 <= f.num /\ f.num <= f.den

\* C14: the confidence is in [0,1]; the alternative language and confidence
\* are set together, only when the second-ranked score is positive and at
\* least 70% of the top score, and then the alternative confidence is in
\* [0,1] and not above the confidence.
C14_ResultShape ==
    probe.op = "detect_language" =>
        LET r   == probe.out[1]
            sc  == probe.out[2]
            top == IF FracGT(sc["en"], sc["pt-BR"]) THEN sc["en"] ELSE sc["pt-BR"]
            snd == IF FracGT(sc["en"], sc["pt-BR"]) THEN sc["pt-BR"] ELSE sc["en"]
        IN  /\ InUnitInterval(r.confidence)
            /\ (r.alternative_language = None) <=> (r.alternative_confidence = <<>>)
            /\ r.alternative_language # None =>
                  /\ r.alternative_language # r.detected_language
                  /\ snd.num > 0
                  /\ 10 * snd.num * top.den >= 7 * top.num * snd.den
                  /\ InUnitInterval(r.alternative_confidence[1])
                  /\ ~FracGT(r.alternative_confidence[1], r.confidence)

C14_Witness ==
    /\ probe.op = "detect_language"
    /\ probe.text = TEXT_RATIO_70_OF_11
    /\ probe.out[1].detected_language = "en"
    /\ probe.out[1].alternative_language = "pt-BR"

\* C15: inserting the same document again (the core load on a store that
\* holds the core documents, add_custom_knowledge with a title and content it
\* has stored before) returns the same id, leaves the store as it is, and the
\* store never holds two entries for one id.
C15_InsertStep ==
    /\ (kb_call'.op = "initialize_core_knowledge"
            /\ CORE_DOCUMENTS \subseteq collection) => collection' = collection
    /\ kb_call'.op = "add_custom_knowledge" =>
          \A d \in collection :
              (/\ d.id = custom_id(d.metadata.title, d.content)
               /\ d.metadata.title = kb_call'.title
               /\ d.content = kb_call'.content)
              => (kb_call'.ret = d.id /\ collection' = collection)
    /\ \A d1, d2 \in collection' : d1.id = d2.id => d1 = d2
    /\ Cardinality(collection') >= Cardinality(collection)

C16_IdFunctionOfContent ==
    /\ \A d1, d2 \in collection : d1.content = d2.content => d1.id = d2.id
    /\ kb_call.op = "add_custom_knowledge" =>
          /\ kb_call.ret = custom_id(kb_call.title, kb_call.content)
          /\ \A d \in collection :
                d.id = kb_call.ret =>
                    (d.metadata.title = kb_call.title /\ d.content = kb_call.content)

\* C17: when the hits of get_product_info(X) include a document titled
\* "X Overview" and one titled "X Fees", the overview and the pricing of the
\* result are both non-empty and differ.
C17_OverviewAndPricing ==
    (/\ kb_call.op = "get_product_info"
     /\ \E i \in 1..Len(kb_call.results) :
           kb_call.results[i].metadata.title = <<"X", " ", "Overview">>
     /\ \E j \in 1..Len(kb_call.results) :
           kb_call.results[j].metadata.title = <<"X", " ", "Fee", "s">>)
    => /\ kb_call.info.overview # <<>>
       /\ kb_call.info.pricing # <<>>
       /\ kb_call.info.overview # kb_call.info.pricing
       /\ kb_call.info = organize(kb_call.results, 1, empty_info)

\* C18: a turn invokes the LLM at most once; a failing call is not retried
\* and the turn answers with the one apology.
C18_NoRetry ==
    /\ Len(call.llm_invocations) <= 1
    /\ Len(call.returned) <= 1
    /\ LLMRaised => (Len(call.llm_invocations) = 1 /\ call.returned = <<APOLOGY>>)

C18_Witness ==
    /\ LLMRaised
    /\ call.user_input = TEXT_BLANK
    /\ Len(call.llm_invocations) = 1
    /\ context.conversation_history = <<>>

\* the texts an input is compared with
PairAtoms == {"Pix", "a", "ok", " ", "?"}

PAIR_TABLE ==
    {[text    |-> u,
      tokens  |-> token_count(u),
      matches |-> [lang \in {"pt-BR", "en"} |-> pattern_matches(lang, u)],
      stops   |-> [lang \in {"pt-BR", "en"} |-> stop_word_hits(lang, u)],
      score   |-> scores(u)] : u \in TextsOver(PairAtoms, MaxPairLen)}

\* C20: the score of a language is (2 * pattern matches + stop words) /
\* tokens, and of two inputs with the same tokens and stop words the one with
\* more pattern matches does not score lower.
C20_ScoreMonotone ==
    probe.op = "detect_language" =>
        \A lang \in {"pt-BR", "en"} :
            \A n \in {token_count(probe.text)} :
            \A m \in {pattern_matches(lang, probe.text)} :
            \A st \in {stop_word_hits(lang, probe.text)} :
            \A sc \in {probe.out[2][lang]} :
                /\ n > 0 => sc.num * n = (2 * m + st) * sc.den
                /\ n = 0 => sc.num = 0
                /\ \A other \in PAIR_TABLE :
                      (/\ other.tokens = n
                       /\ other.stops[lang] = st
                       /\ other.matches[lang] >= m)
                      => ~FracGT(sc, other.score[lang])

C20_Witness ==
    /\ probe.op = "detect_language"
    /\ probe.text = <<"ok", " ", "Pix">>
    /\ probe.out[2]["pt-BR"] = [num |-> 2, den |-> 2]
    /\ \E other \in PAIR_TABLE :
          /\ other.text = <<"Pix", " ", "Pix">>
          /\ other.score["pt-BR"] = [num |-> 4, den |-> 2]

Supplied(filter) == filter \notin {None, ""}

\* C19: search hands the engine one equality constraint per supplied filter
\* and none for the others, asks for n_results hits, and returns the hits of
\* the engine, all of them and in their order, so at most n_results entries
\* that all satisfy every supplied filter.
C19_SearchContract ==
    kb_call.op = "search" =>
        /\ kb_call.where.language =
              (IF Supplied(kb_call.args.filter_language)
               THEN kb_call.args.filter_language ELSE None)
        /\ kb_call.where.product =
              (IF Supplied(kb_call.args.filter_product)
               THEN kb_call.args.filter_product ELSE None)
        /\ kb_call.where.category =
              (IF Supplied(kb_call.args.filter_category)
               THEN kb_call.args.filter_category ELSE None)
        /\ kb_call.n_results = kb_call.args.n_results
        /\ kb_call.query_texts = <<kb_call.args.query>>
        /\ Len(kb_call.ret) = Len(kb_call.hits)
        /\ Len(kb_call.ret) <= kb_call.args.n_results
        /\ \A i \in 1..Len(kb_call.ret) :
              /\ kb_call.ret[i].id = kb_call.hits[i].id
              /\ kb_call.ret[i].content = kb_call.hits[i].content
              /\ kb_call.ret[i].metadata = kb_call.hits[i].metadata
              /\ Supplied(kb_call.args.filter_language) =>
                    kb_call.ret[i].metadata.language = kb_call.args.filter_language
              /\ Supplied(kb_call.args.filter_product) =>
                    kb_call.ret[i].metadata.product = kb_call.args.filter_product
              /\ Supplied(kb_call.args.filter_category) =>
                    kb_call.ret[i].metadata.category = kb_call.args.filter_category

C19_Witness ==
    /\ kb_call.op = "search"
    /\ ~kb_call.raised
    /\ kb_call.args.filter_language = "en"
    /\ kb_call.args.filter_product = ""
    /\ kb_call.args.filter_category = "products"
    /\ kb_call.args.n_results = 2
    /\ Len(kb_call.ret) = 1
    /\ kb_call.ret[1].id = generate_id(<<"infinitepay_overview">>)

\* C21: the detected language has the highest score; when pt-BR and en have
\* equal positive scores, pt-BR (declared first) is the detected language and
\* en the alternative; the same input always gives the same result.
C21_RankingAndTie ==
    probe.op = "detect_language" =>
        \A r \in {probe.out[1]} : \A sc \in {probe.out[2]} :
            /\ sc[r.detected_language].num > 0 =>
                  \A lang \in {"pt-BR", "en"} : ~FracGT(sc[lang], sc[r.detected_language])
            /\ r.alternative_language # None =>
                  ~FracGT(sc[r.alternative_language], sc[r.detected_language])
            /\ (/\ sc["pt-BR"].num > 0
                /\ ~FracGT(sc["pt-BR"], sc["en"])
                /\ ~FracGT(sc["en"], sc["pt-BR"]))
               => (r.detected_language = "pt-BR" /\ r.alternative_language = "en")
            /\ r = detect_language(probe.text)

C21_Witness ==
    /\ probe.op = "detect_language"
    /\ probe.text = <<"a", " ", "ok">>
    /\ probe.out[2]["pt-BR"] = probe.out[2]["en"]
    /\ probe.out[2]["en"].num > 0
    /\ probe.out[1].detected_language = "pt-BR"
    /\ probe.out[1].alternative_language = "en"

\* the bucket tests of get_product_info, each on its own
IsOverviewHit(metadata) ==
    contains(metadata.subcategory, "overview") \/ contains(lower(metadata.title), "overview")

IsFeaturesHit(metadata) ==
    contains(metadata.subcategory, "feature") \/ contains(lower(metadata.title), "feature")

IsPricingHit(metadata) ==
    \/ contains(metadata.subcategory, "fee")
    \/ contains(metadata.subcategory, "pricing")
    \/ contains(metadata.subcategory, "taxa")

\* the positions of the hits that go to a bucket, the tests taken in the
\* order overview, features, pricing
HitsOf(results, bucket) ==
    {i \in 1..Len(results) :
        LET m == results[i].metadata
        IN  CASE bucket = "overview" -> IsOverviewHit(m)
              [] bucket = "features" -> ~IsOverviewHit(m) /\ IsFeaturesHit(m)
              [] bucket = "pricing"  -> ~IsOverviewHit(m) /\ ~IsFeaturesHit(m) /\ IsPricingHit(m)
              [] bucket = "other"    -> ~IsOverviewHit(m) /\ ~IsFeaturesHit(m) /\ ~IsPricingHit(m)}

Max(S) == CHOOSE i \in S : \A j \in S : j <= i

\* C22: every hit goes to the first of overview, features, pricing whose test
\* it passes, else to other; a named bucket holds the content of the last hit
\* that went to it (nothing when none did), and other holds the contents of
\* all its hits in result order.
C22_Bucketing ==
    kb_call.op = "get_product_info" =>
        \A results \in {kb_call.results} : \A info \in {kb_call.info} :
            /\ \A b \in {"overview", "features", "pricing"} :
                  \A hits \in {HitsOf(results, b)} :
                      info[b] = IF hits = {} THEN <<>> ELSE results[Max(hits)].content
            /\ \A others \in {HitsOf(results, "other")} :
                  /\ Len(info.other) = Cardinality(others)
                  /\ \A i \in others :
                        info.other[Cardinality({j \in others : j <= i})] = results[i].content

C22_Witness ==
    /\ kb_call.op = "get_product_info"
    /\ Len(kb_call.results) = 5
    /\ kb_call.results[1] = DOC_OVERVIEW
    /\ kb_call.results[2] = DOC_TERMINAL
    /\ kb_call.results[3] = DOC_PRICING_OVERVIEW
    /\ kb_call.results[4] = DOC_FEES
    /\ kb_call.results[5] = DOC_FEES_AS_COSTS
    /\ kb_call.info = [overview |-> <<"x_pricing">>, features |-> <<>>,
                       pricing |-> <<"x_fees">>,
                       other |-> <<<<"x_terminal">>, <<"x_costs">>>>]

\* C24: a call of generate_response leaves session_id, user_profile,
\* current_product, detected_intents, metadata and created_at as they were;
\* detected_intents stays empty and current_product is never set.
C24_FrameStep ==
    /\ context'.session_id = context.session_id
    /\ context'.user_profile = context.user_profile
    /\ context'.current_product = context.current_product
    /\ context'.detected_intents = context.detected_intents
    /\ context'.metadata = context.metadata
    /\ context'.created_at = context.created_at
    /\ context'.detected_intents = <<>>
    /\ call'.kind # "none" =>
          /\ call'.pre = context
          /\ call'.searches # <<>> =>
                call'.searches[1].filter_product = context.current_product

C24_Frame == [][C24_FrameStep]_vars

C24_Witness ==
    /\ call.kind = "ok"
    /\ call.pre.language = "en"
    /\ context.language = "pt-BR"
    /\ Len(context.conversation_history) = Len(call.pre.conversation_history) + 2
    /\ context.last_interaction > call.pre.last_interaction
    /\ context.current_product = "infinitepay"
    /\ context.detected_intents = <<>>
    /\ Len(context.conversation_history) = 4

AllDone == \A p \in Procs : procs[p].pc = "done"

C25_TurnLoop ==
    /\ \A i \in 1..Len(session_messages) :
          session_messages[i].role = IF i % 2 = 1 THEN "user" ELSE "assistant"
    /\ ui.calls <= 1
    /\ ui.status = "idle" /\ session_messages # <<>> => ui.calls = 1 /\ ~last_is_user
    /\ Len(session_messages) >= Len(context.conversation_history)
    /\ (ui.status = "idle" /\ LLMRaised) =>
          /\ session_messages[Len(session_messages)].content =
                format_response_with_brand(APOLOGY)
          /\ context.conversation_history = call.pre.conversation_history

====
